---- MODULE Spec2Model ----
(***************************************************************************)
(* ActionTracker API (server.js): an Express service over two PostgreSQL   *)
(* tables, public.trackers and public.actions.  The model follows the      *)
(* fullest variant of server.js (src/unnamed/part_000): its HTTP handlers, *)
(* the schema that ensureSchema provisions (columns, defaults, the CHECK   *)
(* and FOREIGN KEY constraints, the two triggers) and ensureSchema itself. *)
(*                                                                         *)
(* Five specifications share the variables:                                *)
(*   Spec        the HTTP handlers served concurrently on a database whose *)
(*               schema ensureSchema has provisioned;                      *)
(*   SpecSerial  the same handlers, one request at a time;                 *)
(*   SpecBoot    server instances starting (app.listen -> ensureSchema)    *)
(*               against one empty database, and GET /health;              *)
(*   SpecTrigger POST /trackers, POST /actions and a SQL session whose     *)
(*               INSERT INTO public.actions may name local_id;             *)
(*   SpecPool    GET /trackers with the steps of its storage call: a       *)
(*               client is taken from the pool, the query runs, the client *)
(*               goes back to the pool.                                    *)
(***************************************************************************)
EXTENDS Integers, Sequences, FiniteSets, TLC

\* ------------------------------------------------------------------ bounds
\* INSERT statements of POST /actions in flight at the same time (the pool
\* of the program allows 8 connections).
MaxInFlight == 2
\* Requests served in one behaviour.
MaxRequests == 4
\* Server instances started against the same database (SpecBoot).
MaxServers == 2
\* GET /health requests answered in one behaviour (SpecBoot).
MaxHealth == 2

Servers == 1..MaxServers

\* ------------------------------------------------------- JavaScript values
\* A JSON / JavaScript value: undefined, null, a number, NaN or a string.
\* A string is the sequence of its characters.
Undef == [t |-> "undefined"]
Null == [t |-> "null"]
NaN == [t |-> "nan"]
Num(n) == [t |-> "number", n |-> n]
Str(s) == [t |-> "string", s |-> s]

\* The characters String.prototype.trim removes (those the inputs use).
WhiteSpace == {" ", "\t"}

\* String.prototype.trim.
RECURSIVE TrimLeft(_)
TrimLeft(s) ==
    IF s # <<>> /\ Head(s) \in WhiteSpace THEN TrimLeft(Tail(s)) ELSE s

RECURSIVE TrimRight(_)
TrimRight(s) ==
    IF s # <<>> /\ s[Len(s)] \in WhiteSpace
    THEN TrimRight(SubSeq(s, 1, Len(s) - 1))
    ELSE s

Trim(s) == TrimRight(TrimLeft(s))

\* The value of a decimal digit, -1 for any other character.
DigitVal(c) ==
    CASE c = "0" -> 0 [] c = "1" -> 1 [] c = "2" -> 2 [] c = "3" -> 3
      [] c = "4" -> 4 [] c = "5" -> 5 [] c = "6" -> 6 [] c = "7" -> 7
      [] c = "8" -> 8 [] c = "9" -> 9 [] OTHER -> -1

RECURSIVE ParseDigits(_, _)
ParseDigits(s, acc) ==
    IF s = <<>> THEN acc ELSE ParseDigits(Tail(s), 10 * acc + DigitVal(Head(s)))

\* The digits of a natural number, most significant first.
RECURSIVE Digits(_)
Digits(n) ==
    LET d == <<"0", "1", "2", "3", "4", "5", "6", "7", "8", "9">>[(n % 10) + 1]
    IN IF n < 10 THEN <<d>> ELSE Append(Digits(n \div 10), d)

\* Number(v): undefined -> NaN, null -> 0, a string is trimmed and parsed
\* ("" -> 0, decimal digits -> their value, anything else -> NaN).
JsNumber(v) ==
    CASE v.t = "undefined" -> NaN
      [] v.t = "null" -> Num(0)
      [] v.t = "number" -> v
      [] v.t = "nan" -> NaN
      [] v.t = "string" ->
            LET s == Trim(v.s)
            IN IF s = <<>> THEN Num(0)
               ELSE IF \A i \in 1..Len(s) : DigitVal(s[i]) >= 0
                    THEN Num(ParseDigits(s, 0))
                    ELSE NaN

\* String(v).
JsString(v) ==
    CASE v.t = "undefined" -> <<"u", "n", "d", "e", "f", "i", "n", "e", "d">>
      [] v.t = "null" -> <<"n", "u", "l", "l">>
      [] v.t = "nan" -> <<"N", "a", "N">>
      [] v.t = "number" -> Digits(v.n)
      [] v.t = "string" -> v.s

\* JavaScript truthiness: !v is ~Truthy(v).
Truthy(v) ==
    CASE v.t = "undefined" -> FALSE
      [] v.t = "null" -> FALSE
      [] v.t = "nan" -> FALSE
      [] v.t = "number" -> v.n # 0
      [] v.t = "string" -> v.s # <<>>

\* body[f], undefined when the body has no such property.
Prop(body, f) == IF f \in DOMAIN body THEN body[f] ELSE Undef

\* ------------------------------------------------------------- the database
VARIABLES
    tables,      \* the tables that exist (pg_class)
    functions,   \* the functions that exist (pg_proc.proname)
    triggers,    \* the triggers that exist (pg_trigger.tgname)
    trackers,    \* the committed rows of public.trackers
    actions,     \* the committed rows of public.actions
    trackerSeq,  \* next value of the BIGSERIAL sequence of trackers.id
    actionSeq,   \* next value of the BIGSERIAL sequence of actions.id
    now,         \* the database clock, read by now(); it ticks with each write to actions
    inflight,    \* the INSERTs of POST /actions under way: stage, body, row
    served,      \* requests answered so far
    last,        \* the request answered last and its response
    boot,        \* per server instance: where its ensureSchema stands
    schemaErr,   \* per server instance: the error ensureSchema threw, if any
    health,      \* the GET /health answered last, and how many were
    checkedOut   \* the clients checked out of the connection pool

dbVars == <<tables, functions, triggers, trackers, actions, trackerSeq, actionSeq, now>>
reqVars == <<inflight, served, last>>
bootVars == <<boot, schemaErr, health>>
poolVars == <<checkedOut>>
vars == <<dbVars, reqVars, bootVars, poolVars>>

\* What ensureSchema creates.
SchemaTables == {"trackers", "actions"}
SchemaFunctions == {"set_actions_updated_at", "actions_local_id_next"}
SchemaTriggers == {"trg_actions_set_updated_at", "trg_actions_set_local_id"}

\* actions.status: CHECK (status IN ('open','in_progress','completed')).
\* A CHECK constraint passes on NULL.
StatusOpen == <<"o", "p", "e", "n">>
StatusInProgress == <<"i", "n", "_", "p", "r", "o", "g", "r", "e", "s", "s">>
StatusCompleted == <<"c", "o", "m", "p", "l", "e", "t", "e", "d">>
StatusCheck(v) ==
    v.t = "null" \/ (v.t = "string" /\ v.s \in {StatusOpen, StatusInProgress, StatusCompleted})

\* A query parameter bound to a TEXT column: undefined and null are NULL,
\* a number is sent as its digits.
SqlText(v) ==
    CASE v.t \in {"undefined", "null"} -> Null
      [] v.t = "string" -> v
      [] v.t = "number" -> Str(Digits(v.n))
      [] v.t = "nan" -> Str(<<"N", "a", "N">>)

\* A query parameter bound to an INTEGER or BIGINT column: NULL, the integer,
\* or NaN when the text is no integer (the statement then fails, 22P02).
SqlInt(v) ==
    CASE v.t \in {"undefined", "null"} -> Null
      [] v.t = "number" -> v
      [] v.t = "nan" -> NaN
      [] v.t = "string" ->
            IF Trim(v.s) # <<>> /\ \A i \in 1..Len(Trim(v.s)) : DigitVal(Trim(v.s)[i]) >= 0
            THEN Num(ParseDigits(Trim(v.s), 0))
            ELSE NaN

\* COALESCE(MAX(local_id), 0) over a set of rows: MAX skips NULLs.
MaxLocalId(rows) ==
    LET ids == {r.local_id.n : r \in {x \in rows : x.local_id.t = "number"}}
    IN IF ids = {} THEN 0 ELSE CHOOSE m \in ids : \A n \in ids : n <= m

\* A mutation of actions_local_id_next: the SELECT without its WHERE clause.
ActionsLocalIdNext_AnyTracker(new, rows) ==
    IF new.local_id.t = "null"
    THEN [new EXCEPT !.local_id = Num(MaxLocalId(rows) + 1)]
    ELSE new

\* A mutation of actions_local_id_next: the IF NEW.local_id IS NULL dropped.
ActionsLocalIdNext_Always(new, rows) ==
    [new EXCEPT !.local_id =
        Num(MaxLocalId({r \in rows : r.tracker_id = new.tracker_id}) + 1)]

\* The trigger function public.actions_local_id_next(): NEW as it returns
\* it, given the rows of public.actions that its SELECT sees.
ActionsLocalIdNext(new, rows) ==
    IF new.local_id.t = "null"
    THEN [new EXCEPT !.local_id =
            Num(MaxLocalId({r \in rows : r.tracker_id = new.tracker_id}) + 1)]
    ELSE new

\* BEFORE INSERT ON public.actions: trg_actions_set_local_id, when it exists.
BeforeInsert(new, rows) ==
    IF "trg_actions_set_local_id" \in triggers THEN ActionsLocalIdNext(new, rows) ELSE new

\* BEFORE UPDATE ON public.actions: trg_actions_set_updated_at, when it
\* exists, runs set_actions_updated_at(): NEW.updated_at := now().
BeforeUpdate(new, clock) ==
    IF "trg_actions_set_updated_at" \in triggers THEN [new EXCEPT !.updated_at = clock] ELSE new

\* A mutation of the foreign key: REFERENCES without ON DELETE CASCADE
\* enforcement, the child rows stay.
OnDeleteCascade_Keep(rows, trackerId) == rows

\* tracker_id REFERENCES public.trackers(id) ON DELETE CASCADE: the rows of
\* public.actions left when tracker trackerId is deleted.
OnDeleteCascade(rows, trackerId) == {r \in rows : r.tracker_id # trackerId}

\* The foreign key on INSERT: the referenced tracker exists.  The check
\* locks the tracker row until the INSERT commits, so the check and the
\* commit are one step here.
ForeignKeyHolds(row, trks) == \E t \in trks : t.id = row.tracker_id

\* A mutation of ORDER BY local_id ASC, id ASC: ORDER BY id ASC.
ActionLess_ById(a, b) == a.id < b.id

\* ORDER BY local_id ASC, id ASC.  ASC puts NULLs last.
ActionLess(a, b) ==
    IF a.local_id = b.local_id THEN a.id < b.id
    ELSE IF a.local_id.t = "null" THEN FALSE
    ELSE IF b.local_id.t = "null" THEN TRUE
    ELSE a.local_id.n < b.local_id.n

\* id::text.
IdText(id) == Str(Digits(id))

\* A row of public.actions as RETURNING / SELECT give it: id::text,
\* tracker_id::text and the other columns.
ActionJson(r) == [r EXCEPT !.id = IdText(r.id), !.tracker_id = IdText(r.tracker_id)]

\* A row of public.trackers as RETURNING / SELECT give it.
TrackerJson(r) == [r EXCEPT !.id = IdText(r.id)]

\* SELECT ... FROM public.actions WHERE tracker_id = $1
\* ORDER BY local_id ASC, id ASC.
RECURSIVE SelectActions(_, _)
SelectActions(rows, trackerId) ==
    LET mine == {r \in rows : r.tracker_id = trackerId}
    IN IF mine = {} THEN <<>>
       ELSE LET first == CHOOSE r \in mine : \A o \in mine \ {r} : ActionLess(r, o)
            IN <<ActionJson(first)>> \o SelectActions(mine \ {first}, trackerId)

\* SELECT id::text, name, created_at FROM public.trackers ORDER BY id.
RECURSIVE SelectTrackers(_)
SelectTrackers(rows) ==
    IF rows = {} THEN <<>>
    ELSE LET first == CHOOSE r \in rows : \A o \in rows : r.id <= o.id
         IN <<TrackerJson(first)>> \o SelectTrackers(rows \ {first})

\* ----------------------------------------------------------- request inputs
\* The error texts a storage call that cannot reach the database carries
\* (err.message of pg): they name hosts and users of the deployment.
StorageErrors ==
    {"connect ECONNREFUSED db.internal:5432",
     "password authentication failed for user tracker_admin"}

\* How a storage call ends: it runs, or the pool / connection throws.
StorageOutcomes == {"ok"} \cup StorageErrors

\* name of POST /trackers bodies.
NameInputs ==
    {Undef, Str(<<>>), Str(<<" ", "\t">>), Str(<<"T", "1">>), Str(<<" ", "T", "1", " ">>)}

\* name of PATCH /trackers/:id bodies.
RenameInputs == {Str(<<" ", "\t">>), Str(<<"T", "2", " ">>)}

\* :id path parameters and the tracker_id query parameter.
PathIdInputs == {Str(<<"1">>), Str(<<"2">>), Str(<<"x">>)}
QueryIdInputs == PathIdInputs \cup {Undef}

TitleA1 == Str(<<"A", "1">>)

\* Bodies of POST /actions.
PostActionBodies ==
    {[tracker_id |-> Str(<<"1">>), title |-> TitleA1],
     [tracker_id |-> Num(2), title |-> TitleA1],
     [tracker_id |-> Num(1), title |-> Str(<<" ", "A", "1">>),
      status |-> Str(StatusCompleted), priority |-> Str(<<"3">>)],
     [tracker_id |-> Num(1), title |-> TitleA1, status |-> Str(<<"d", "o", "n", "e">>)],
     [tracker_id |-> Num(1)],
     [title |-> TitleA1]}

\* Bodies of PATCH /actions/:id.
PatchActionBodies ==
    {<<>>,
     [local_id |-> Num(7)],
     [title |-> Str(<<"B">>), status |-> Str(StatusCompleted), priority |-> Str(<<"1">>)],
     [status |-> Str(<<"d", "o", "n", "e">>)]}

\* -------------------------------------------------------------- HTTP layer
\* One more request may arrive.
Accepts == served + Cardinality(inflight) < MaxRequests

\* res.status(code).json(body): the response, with the number of SQL
\* statements the handler issued for it and what the server logged.
Respond(op, args, code, body, stmts) ==
    /\ last' = [op |-> op, args |-> args, code |-> code, body |-> body, stmts |-> stmts,
                logged |-> <<>>]
    /\ served' = served + 1

\* The body the catch block of a handler sends: { error: e.message }.
CatchBody(message) == [error |-> message]

\* query() throws: it logs 'DB ERROR:' err.message and rethrows, and the
\* handler's catch (e) { res.status(500).json({ error: e.message }) } answers.
Caught(op, args, message) ==
    /\ last' = [op |-> op, args |-> args, code |-> 500, body |-> CatchBody(message),
                stmts |-> 1, logged |-> <<message>>]
    /\ served' = served + 1

\* A mutation of the name check of POST /trackers: the trim left out.
NameMissing_NoTrim(name) == ~Truthy(name)

\* !name || !String(name).trim()
NameMissing(name) == ~Truthy(name) \/ Trim(JsString(name)) = <<>>

\* GET /trackers
GetTrackers ==
    /\ Accepts
    /\ \E out \in StorageOutcomes :
        IF out # "ok" THEN Caught("GET /trackers", <<>>, out)
        ELSE IF "trackers" \notin tables
        THEN Caught("GET /trackers", <<>>, "relation does not exist")
        ELSE Respond("GET /trackers", <<>>, 200, SelectTrackers(trackers), 1)
    /\ UNCHANGED <<dbVars, inflight, bootVars, poolVars>>

\* POST /trackers
PostTrackers(name) ==
    LET args == [name |-> name]
        row == [id |-> trackerSeq, name |-> Str(Trim(JsString(name))), created_at |-> now]
    IN
    /\ Accepts
    /\ IF NameMissing(name)
       THEN /\ Respond("POST /trackers", args, 400, [error |-> "name is required"], 0)
            /\ UNCHANGED dbVars
       ELSE \E out \in StorageOutcomes :
            IF out # "ok"
            THEN Caught("POST /trackers", args, out) /\ UNCHANGED dbVars
            ELSE IF "trackers" \notin tables
            THEN Caught("POST /trackers", args, "relation does not exist") /\ UNCHANGED dbVars
            ELSE /\ trackers' = trackers \cup {row}
                 /\ trackerSeq' = trackerSeq + 1
                 /\ Respond("POST /trackers", args, 201, TrackerJson(row), 1)
                 /\ UNCHANGED <<tables, functions, triggers, actions, actionSeq, now>>
    /\ UNCHANGED <<inflight, bootVars, poolVars>>

\* PATCH /trackers/:id
PatchTrackers(idParam, name) ==
    LET args == [id |-> idParam, name |-> name]
        id == JsNumber(idParam)
        hit == {t \in trackers : t.id = id.n}
        new == {[t EXCEPT !.name = Str(Trim(JsString(name)))] : t \in hit}
    IN
    /\ Accepts
    /\ IF ~Truthy(id) \/ ~Truthy(name)
       THEN /\ Respond("PATCH /trackers", args, 400, [error |-> "id and name required"], 0)
            /\ UNCHANGED dbVars
       ELSE \E out \in StorageOutcomes :
            IF out # "ok"
            THEN Caught("PATCH /trackers", args, out) /\ UNCHANGED dbVars
            ELSE IF "trackers" \notin tables
            THEN Caught("PATCH /trackers", args, "relation does not exist") /\ UNCHANGED dbVars
            ELSE IF hit = {}
            THEN /\ Respond("PATCH /trackers", args, 404, [error |-> "not found"], 1)
                 /\ UNCHANGED dbVars
            ELSE /\ trackers' = (trackers \ hit) \cup new
                 /\ Respond("PATCH /trackers", args, 200, TrackerJson(CHOOSE t \in new : TRUE), 1)
                 /\ UNCHANGED <<tables, functions, triggers, actions, trackerSeq, actionSeq, now>>
    /\ UNCHANGED <<inflight, bootVars, poolVars>>

\* DELETE /trackers/:id.  The response is { ok }; cascaded, the number of
\* rows of public.actions the foreign key removed, is recorded beside it for
\* the properties and is not sent.
DeleteTrackers(idParam) ==
    LET args == [id |-> idParam]
        id == JsNumber(idParam)
        hit == {t \in trackers : t.id = id.n}
    IN
    /\ Accepts
    /\ IF ~Truthy(id)
       THEN /\ Respond("DELETE /trackers", args, 400, [error |-> "id required"], 0)
            /\ UNCHANGED dbVars
       ELSE \E out \in StorageOutcomes :
            IF out # "ok"
            THEN Caught("DELETE /trackers", args, out) /\ UNCHANGED dbVars
            ELSE IF "trackers" \notin tables
            THEN Caught("DELETE /trackers", args, "relation does not exist") /\ UNCHANGED dbVars
            ELSE /\ trackers' = trackers \ hit
                 /\ actions' = IF hit = {} THEN actions ELSE OnDeleteCascade(actions, id.n)
                 /\ Respond("DELETE /trackers", args, 200,
                            [ok |-> hit # {}, cascaded |-> Cardinality(actions) - Cardinality(actions')], 1)
                 /\ UNCHANGED <<tables, functions, triggers, trackerSeq, actionSeq, now>>
    /\ UNCHANGED <<inflight, bootVars, poolVars>>

\* GET /actions?tracker_id=
GetActions(trackerIdParam) ==
    LET args == [tracker_id |-> trackerIdParam]
        trackerId == JsNumber(trackerIdParam)
    IN
    /\ Accepts
    /\ IF ~Truthy(trackerId)
       THEN Respond("GET /actions", args, 400, [error |-> "tracker_id is required"], 0)
       ELSE \E out \in StorageOutcomes :
            IF out # "ok" THEN Caught("GET /actions", args, out)
            ELSE IF "actions" \notin tables
            THEN Caught("GET /actions", args, "relation does not exist")
            ELSE Respond("GET /actions", args, 200, SelectActions(actions, trackerId.n), 1)
    /\ UNCHANGED <<dbVars, inflight, bootVars, poolVars>>

\* A mutation of the defaults of POST /actions: status = 'open' left out,
\* so a body without status sends undefined (NULL).
PostActionParams_NoStatusDefault(body) ==
    [tracker_id |-> JsNumber(Prop(body, "tracker_id")),
     title |-> Str(Trim(JsString(Prop(body, "title")))),
     owner |-> IF "owner" \in DOMAIN body THEN body.owner ELSE Null,
     comments |-> IF "comments" \in DOMAIN body THEN body.comments ELSE Null,
     status |-> Prop(body, "status"),
     priority |-> JsNumber(IF "priority" \in DOMAIN body THEN body.priority ELSE Num(2)),
     due_date |-> IF "due_date" \in DOMAIN body THEN body.due_date ELSE Null]

\* The parameters POST /actions binds: the destructuring defaults (owner,
\* comments, due_date = null, status = 'open', priority = 2), then
\* [trackerId, String(title).trim(), owner, comments, status,
\*  Number(priority), due_date].
PostActionParams(body) ==
    [tracker_id |-> JsNumber(Prop(body, "tracker_id")),
     title |-> Str(Trim(JsString(Prop(body, "title")))),
     owner |-> IF "owner" \in DOMAIN body THEN body.owner ELSE Null,
     comments |-> IF "comments" \in DOMAIN body THEN body.comments ELSE Null,
     status |-> IF "status" \in DOMAIN body THEN body.status ELSE Str(StatusOpen),
     priority |-> JsNumber(IF "priority" \in DOMAIN body THEN body.priority ELSE Num(2)),
     due_date |-> IF "due_date" \in DOMAIN body THEN body.due_date ELSE Null]

\* The row INSERT INTO public.actions (tracker_id, title, owner, comments,
\* status, priority, due_date) builds from its parameters: id from the
\* sequence, local_id not named (NULL), created_at and updated_at now().
NewAction(p, id, clock) ==
    [id |-> id, tracker_id |-> p.tracker_id.n, local_id |-> Null,
     title |-> SqlText(p.title), owner |-> SqlText(p.owner),
     comments |-> SqlText(p.comments), status |-> SqlText(p.status),
     priority |-> SqlInt(p.priority), due_date |-> SqlText(p.due_date),
     created_at |-> clock, updated_at |-> clock]

\* The row constraints of public.actions: title NOT NULL, the status CHECK,
\* and an INTEGER column holds no NaN.
RowValid(r) == r.title.t # "null" /\ StatusCheck(r.status) /\ r.priority.t # "nan"

\* POST /actions, to the point where the INSERT has taken its id: the
\* validation, then the statement is sent and nextval() evaluated.
PostActionsBegin(body) ==
    LET p == PostActionParams(body)
    IN
    /\ Accepts
    /\ IF ~Truthy(p.tracker_id) \/ ~Truthy(Prop(body, "title"))
       THEN /\ Respond("POST /actions", body, 400,
                       [error |-> "tracker_id and title are required"], 0)
            /\ UNCHANGED <<dbVars, inflight>>
       ELSE \E out \in StorageOutcomes :
            IF out # "ok"
            THEN Caught("POST /actions", body, out) /\ UNCHANGED <<dbVars, inflight>>
            ELSE IF "actions" \notin tables
            THEN /\ Caught("POST /actions", body, "relation does not exist")
                 /\ UNCHANGED <<dbVars, inflight>>
            ELSE /\ Cardinality(inflight) < MaxInFlight
                 /\ actionSeq' = actionSeq + 1
                 /\ now' = now + 1
                 /\ inflight' = inflight \cup
                        {[stage |-> "trigger", body |-> body,
                          row |-> NewAction(p, actionSeq, now + 1)]}
                 /\ UNCHANGED <<tables, functions, triggers, trackers, actions, trackerSeq,
                                served, last>>
    /\ UNCHANGED <<bootVars, poolVars>>

\* POST /actions: the BEFORE INSERT row trigger runs; its SELECT sees the
\* rows committed so far.
PostActionsTrigger(q) ==
    /\ q.stage = "trigger"
    /\ inflight' = (inflight \ {q}) \cup
            {[q EXCEPT !.stage = "insert", !.row = BeforeInsert(q.row, actions)]}
    /\ UNCHANGED <<dbVars, served, last, bootVars, poolVars>>

\* POST /actions: the row is checked against the constraints and the
\* foreign key, inserted and committed, and the handler answers.
PostActionsInsert(q) ==
    /\ q.stage = "insert"
    /\ IF ~RowValid(q.row)
       THEN /\ Caught("POST /actions", q.body, "violates constraint")
            /\ UNCHANGED dbVars
       ELSE IF ~ForeignKeyHolds(q.row, trackers)
       THEN /\ Caught("POST /actions", q.body, "violates foreign key constraint")
            /\ UNCHANGED dbVars
       ELSE /\ actions' = actions \cup {q.row}
            /\ Respond("POST /actions", q.body, 201, ActionJson(q.row), 1)
            /\ UNCHANGED <<tables, functions, triggers, trackers, trackerSeq, actionSeq, now>>
    /\ inflight' = inflight \ {q}
    /\ UNCHANGED <<bootVars, poolVars>>

\* The fields PATCH /actions/:id may set.
PatchFields == {"title", "owner", "comments", "status", "priority", "due_date"}

\* A mutation of the SET list of PATCH /actions/:id: every key of the body.
PatchSets_AnyKey(body) == DOMAIN body

\* for (const f of fields) if (f in body) sets.push(...): the fields set.
PatchSets(body) == {f \in PatchFields : f \in DOMAIN body}

\* UPDATE public.actions SET <sets>: the row with the named columns bound
\* to the body's values (priority is an INTEGER column, the others TEXT).
SetColumns(row, body, sets) ==
    [f \in DOMAIN row |->
        IF f \in sets
        THEN IF f = "priority" THEN SqlInt(body[f]) ELSE SqlText(body[f])
        ELSE row[f]]

\* PATCH /actions/:id
PatchActions(idParam, body) ==
    LET args == [id |-> idParam, body |-> body]
        id == JsNumber(idParam)
        sets == PatchSets(body)
        hit == {a \in actions : a.id = id.n}
        new == {BeforeUpdate(SetColumns(a, body, sets), now + 1) : a \in hit}
    IN
    /\ Accepts
    /\ IF ~Truthy(id)
       THEN /\ Respond("PATCH /actions", args, 400, [error |-> "id required"], 0)
            /\ UNCHANGED dbVars
       ELSE IF sets = {}
       THEN /\ Respond("PATCH /actions", args, 400, [error |-> "no fields to update"], 0)
            /\ UNCHANGED dbVars
       ELSE \E out \in StorageOutcomes :
            IF out # "ok"
            THEN Caught("PATCH /actions", args, out) /\ UNCHANGED dbVars
            ELSE IF "actions" \notin tables
            THEN Caught("PATCH /actions", args, "relation does not exist") /\ UNCHANGED dbVars
            ELSE IF ~(sets \subseteq PatchFields)
            THEN Caught("PATCH /actions", args, "column does not exist") /\ UNCHANGED dbVars
            ELSE IF "priority" \in sets /\ SqlInt(body.priority).t = "nan"
            THEN Caught("PATCH /actions", args, "invalid input syntax") /\ UNCHANGED dbVars
            ELSE IF hit = {}
            THEN /\ Respond("PATCH /actions", args, 404, [error |-> "not found"], 1)
                 /\ UNCHANGED dbVars
            ELSE IF \E r \in new : ~RowValid(r)
            THEN Caught("PATCH /actions", args, "violates constraint") /\ UNCHANGED dbVars
            ELSE /\ actions' = (actions \ hit) \cup new
                 /\ now' = now + 1
                 /\ Respond("PATCH /actions", args, 200, ActionJson(CHOOSE r \in new : TRUE), 1)
                 /\ UNCHANGED <<tables, functions, triggers, trackers, trackerSeq, actionSeq>>
    /\ UNCHANGED <<inflight, bootVars, poolVars>>

\* DELETE /actions/:id
DeleteActions(idParam) ==
    LET args == [id |-> idParam]
        id == JsNumber(idParam)
        hit == {a \in actions : a.id = id.n}
    IN
    /\ Accepts
    /\ IF ~Truthy(id)
       THEN /\ Respond("DELETE /actions", args, 400, [error |-> "id required"], 0)
            /\ UNCHANGED dbVars
       ELSE \E out \in StorageOutcomes :
            IF out # "ok"
            THEN Caught("DELETE /actions", args, out) /\ UNCHANGED dbVars
            ELSE IF "actions" \notin tables
            THEN Caught("DELETE /actions", args, "relation does not exist") /\ UNCHANGED dbVars
            ELSE /\ actions' = actions \ hit
                 /\ Respond("DELETE /actions", args, 200, [ok |-> hit # {}], 1)
                 /\ UNCHANGED <<tables, functions, triggers, trackers, trackerSeq, actionSeq, now>>
    /\ UNCHANGED <<inflight, bootVars, poolVars>>

\* ----------------------------------------------------------------- Spec
NoResponse ==
    [op |-> "none", args |-> <<>>, code |-> 0, body |-> <<>>, stmts |-> 0, logged |-> <<>>]
NoHealth == [n |-> 0, server |-> 0, code |-> 0, body |-> <<>>, afterFailure |-> FALSE]

\* No request under way, none answered.
InitRequests ==
    /\ inflight = {}
    /\ served = 0
    /\ last = NoResponse
    /\ checkedOut = 0

\* The database as a successful ensureSchema leaves an empty one, and the
\* server instances past their startup.
Init ==
    /\ tables = SchemaTables
    /\ functions = SchemaFunctions
    /\ triggers = SchemaTriggers
    /\ trackers = {}
    /\ actions = {}
    /\ trackerSeq = 1
    /\ actionSeq = 1
    /\ now = 0
    /\ InitRequests
    /\ boot = [s \in Servers |-> [step |-> 6, phase |-> "ready"]]
    /\ schemaErr = [s \in Servers |-> "none"]
    /\ health = NoHealth

\* A request arrives and its handler runs to its response, or to the point
\* where its INSERT is under way.
Arrive ==
    \/ GetTrackers
    \/ \E name \in NameInputs : PostTrackers(name)
    \/ \E id \in PathIdInputs, name \in RenameInputs : PatchTrackers(id, name)
    \/ \E id \in PathIdInputs : DeleteTrackers(id)
    \/ \E id \in QueryIdInputs : GetActions(id)
    \/ \E body \in PostActionBodies : PostActionsBegin(body)
    \/ \E id \in PathIdInputs, body \in PatchActionBodies : PatchActions(id, body)
    \/ \E id \in PathIdInputs : DeleteActions(id)

\* An INSERT under way takes its next step.
Advance ==
    \/ \E q \in inflight : PostActionsTrigger(q)
    \/ \E q \in inflight : PostActionsInsert(q)

Next == Arrive \/ Advance

Spec == Init /\ [][Next]_vars

\* One request at a time: a request arrives only when none is under way.
NextSerial == (inflight = {} /\ Arrive) \/ Advance

SpecSerial == Init /\ [][NextSerial]_vars

\* ------------------------------------------------------------ SpecTrigger
\* The local_id a SQL session may name in its INSERT: none (NULL) or a value.
LocalIdInputs == {Null, Num(1), Num(5)}

\* The row INSERT INTO public.actions (tracker_id, title, local_id) builds:
\* the columns it does not name take their defaults.
NewActionSql(trackerId, localId, id, clock) ==
    [id |-> id, tracker_id |-> trackerId, local_id |-> localId,
     title |-> Str(<<"S">>), owner |-> Null, comments |-> Null,
     status |-> Str(StatusOpen), priority |-> Num(2), due_date |-> Null,
     created_at |-> clock, updated_at |-> clock]

\* A SQL session runs INSERT INTO public.actions (tracker_id, title,
\* local_id) VALUES (trackerId, 'S', localId) RETURNING *: the BEFORE INSERT
\* trigger, the foreign key, the commit.
SqlInsertAction(trackerId, localId) ==
    LET args == [tracker_id |-> trackerId, local_id |-> localId]
        row == BeforeInsert(NewActionSql(trackerId, localId, actionSeq, now + 1), actions)
    IN
    /\ Accepts
    /\ actionSeq' = actionSeq + 1
    /\ now' = now + 1
    /\ IF ForeignKeyHolds(row, trackers)
       THEN /\ actions' = actions \cup {row}
            /\ Respond("INSERT actions", args, 0, row, 1)
       ELSE /\ Respond("INSERT actions", args, 0,
                       [error |-> "violates foreign key constraint"], 1)
            /\ UNCHANGED actions
    /\ UNCHANGED <<tables, functions, triggers, trackers, trackerSeq, inflight, bootVars, poolVars>>

NextTrigger ==
    \/ \E name \in NameInputs : PostTrackers(name)
    \/ \E body \in PostActionBodies : PostActionsBegin(body)
    \/ \E q \in inflight : PostActionsTrigger(q)
    \/ \E q \in inflight : PostActionsInsert(q)
    \/ \E id \in PathIdInputs : DeleteActions(id)
    \/ \E t \in 1..2, l \in LocalIdInputs : SqlInsertAction(t, l)

SpecTrigger == Init /\ [][NextTrigger]_vars

\* --------------------------------------------------------------- SpecBoot
\* The statements of ensureSchema, in order: what each creates.
SchemaSteps ==
    <<[kind |-> "table", name |-> "trackers"],
      [kind |-> "table", name |-> "actions"],
      [kind |-> "function", name |-> "set_actions_updated_at"],
      [kind |-> "trigger", name |-> "trg_actions_set_updated_at"],
      [kind |-> "function", name |-> "actions_local_id_next"],
      [kind |-> "trigger", name |-> "trg_actions_set_local_id"]>>

\* An instance whose ensureSchema is still running.
Booting(s) == boot[s].phase \in {"start", "create"}

\* The position after statement i of ensureSchema.
AfterStep(i) ==
    IF i = Len(SchemaSteps) THEN [step |-> i, phase |-> "ready"]
    ELSE [step |-> i + 1, phase |-> "start"]

\* app.listen(PORT, ...): the instance listens and its callback calls
\* ensureSchema().
Listen(s) ==
    /\ boot[s].phase = "off"
    /\ boot' = [boot EXCEPT ![s] = [step |-> 1, phase |-> "start"]]
    /\ UNCHANGED <<dbVars, reqVars, poolVars, schemaErr, health>>

\* await query(...) throws: ensureSchema rejects, the callback of
\* app.listen catches and logs the error, and the process goes on.
SchemaQueryFails(s) ==
    /\ Booting(s) /\ boot[s].phase = "start"
    /\ \E out \in StorageErrors :
        /\ boot' = [boot EXCEPT ![s].phase = "failed"]
        /\ schemaErr' = [schemaErr EXCEPT ![s] = out]
    /\ UNCHANGED <<dbVars, reqVars, poolVars, health>>

\* CREATE TABLE IF NOT EXISTS public.<name>.
CreateTableIfNotExists(s) ==
    /\ Booting(s) /\ boot[s].phase = "start"
    /\ SchemaSteps[boot[s].step].kind = "table"
    /\ tables' = tables \cup {SchemaSteps[boot[s].step].name}
    /\ boot' = [boot EXCEPT ![s] = AfterStep(boot[s].step)]
    /\ UNCHANGED <<functions, triggers, trackers, actions, trackerSeq, actionSeq, now,
                   reqVars, poolVars, schemaErr, health>>

\* DO $$ ... IF NOT EXISTS (SELECT 1 FROM pg_proc / pg_trigger WHERE ...):
\* the check of the block, against the catalog as committed at that moment.
DoIfNotExists(s) ==
    LET st == SchemaSteps[boot[s].step]
        exists == IF st.kind = "function" THEN st.name \in functions ELSE st.name \in triggers
    IN
    /\ Booting(s) /\ boot[s].phase = "start"
    /\ st.kind \in {"function", "trigger"}
    /\ boot' = [boot EXCEPT ![s] =
                  IF exists THEN AfterStep(boot[s].step) ELSE [step |-> boot[s].step, phase |-> "create"]]
    /\ UNCHANGED <<dbVars, reqVars, poolVars, schemaErr, health>>

\* ... THEN CREATE OR REPLACE FUNCTION: creates the function or replaces it.
DoCreateFunction(s) ==
    /\ Booting(s) /\ boot[s].phase = "create"
    /\ SchemaSteps[boot[s].step].kind = "function"
    /\ functions' = functions \cup {SchemaSteps[boot[s].step].name}
    /\ boot' = [boot EXCEPT ![s] = AfterStep(boot[s].step)]
    /\ UNCHANGED <<tables, triggers, trackers, actions, trackerSeq, actionSeq, now,
                   reqVars, poolVars, schemaErr, health>>

\* ... THEN CREATE TRIGGER: creates the trigger, or fails when a trigger of
\* that name is on the table by now (42710, trigger already exists).
DoCreateTrigger(s) ==
    LET st == SchemaSteps[boot[s].step]
    IN
    /\ Booting(s) /\ boot[s].phase = "create"
    /\ st.kind = "trigger"
    /\ IF st.name \in triggers
       THEN /\ boot' = [boot EXCEPT ![s].phase = "failed"]
            /\ schemaErr' = [schemaErr EXCEPT ![s] = "trigger already exists"]
            /\ UNCHANGED triggers
       ELSE /\ triggers' = triggers \cup {st.name}
            /\ boot' = [boot EXCEPT ![s] = AfterStep(boot[s].step)]
            /\ UNCHANGED schemaErr
    /\ UNCHANGED <<tables, functions, trackers, actions, trackerSeq, actionSeq, now,
                   reqVars, poolVars, health>>

\* GET /health on instance s: SELECT 1 as ok, then { status, db } (time is
\* left out), or 500 when the query throws.
GetHealth(s) ==
    /\ boot[s].phase # "off"
    /\ health.n < MaxHealth
    /\ \E out \in StorageOutcomes :
        health' = [n |-> health.n + 1, server |-> s,
                   code |-> IF out = "ok" THEN 200 ELSE 500,
                   body |-> IF out = "ok" THEN [status |-> "ok", db |-> "ok"]
                            ELSE [status |-> "error", db |-> "down", error |-> out],
                   afterFailure |-> boot[s].phase = "failed"]
    /\ UNCHANGED <<dbVars, reqVars, poolVars, boot, schemaErr>>

\* An empty database and server instances not started yet.
InitBoot ==
    /\ tables = {}
    /\ functions = {}
    /\ triggers = {}
    /\ trackers = {}
    /\ actions = {}
    /\ trackerSeq = 1
    /\ actionSeq = 1
    /\ now = 0
    /\ InitRequests
    /\ boot = [s \in Servers |-> [step |-> 0, phase |-> "off"]]
    /\ schemaErr = [s \in Servers |-> "none"]
    /\ health = NoHealth

NextBoot ==
    \E s \in Servers :
        \/ Listen(s)
        \/ SchemaQueryFails(s)
        \/ CreateTableIfNotExists(s)
        \/ DoIfNotExists(s)
        \/ DoCreateFunction(s)
        \/ DoCreateTrigger(s)
        \/ GetHealth(s)

SpecBoot == InitBoot /\ [][NextBoot]_vars

\* --------------------------------------------------------------- SpecPool
\* The query helper, step by step.  src/server.js writes the steps out:
\*     const client = await pool.connect();
\*     try { return await client.query(sql, params); }
\*     finally { client.release(); }
\* and pool.query(sql, params) of part_000 takes the same three steps inside
\* pg.  A call of the helper is a record of inflight: the number n of its
\* request, its stage ("connect", "query", "finally") and the outcome of
\* client.query once it has settled.

\* new Pool({ max }): the clients the pool hands out at most (8 in part_000,
\* 5 in src/server.js).
PoolMax == 2

\* What pool.connect() rejects with once connectionTimeoutMillis has passed.
ConnectTimeout == "timeout exceeded when trying to connect"

\* What client.query() throws when the connection breaks under the query.
QueryErrors == {"Connection terminated unexpectedly"}

\* The calls of the helper that hold a client.
Holders == {q \in inflight : q.stage \in {"query", "finally"}}

\* The call of request n moves to stage st with outcome out.
Moved(q, st, out) == (inflight \ {q}) \cup {[q EXCEPT !.stage = st, !.out = out]}

\* GET /trackers arrives; its handler calls query(), which awaits
\* pool.connect().
GetTrackersBegin ==
    /\ Accepts
    /\ inflight' = inflight \cup
            {[n |-> served + Cardinality(inflight) + 1, stage |-> "connect", out |-> "none"]}
    /\ UNCHANGED <<dbVars, served, last, bootVars, poolVars>>

\* pool.connect() resolves: the pool has a client to hand out, the query is
\* sent on it.
PoolConnect(n) ==
    \E q \in inflight :
        /\ q.n = n /\ q.stage = "connect"
        /\ checkedOut < PoolMax
        /\ checkedOut' = checkedOut + 1
        /\ inflight' = Moved(q, "query", "none")
        /\ UNCHANGED <<dbVars, served, last, bootVars>>

\* pool.connect() rejects because the database refuses the connection: no
\* client was handed out, the handler's catch block answers.
PoolConnectFails(n) ==
    \E q \in inflight, out \in StorageErrors :
        /\ q.n = n /\ q.stage = "connect"
        /\ Caught("GET /trackers", <<>>, out)
        /\ inflight' = inflight \ {q}
        /\ UNCHANGED <<dbVars, bootVars, poolVars>>

\* connectionTimeoutMillis: 10_000 passes before the pool has a client:
\* pool.connect() rejects, the handler's catch block answers.
PoolConnectTimesOut(n) ==
    \E q \in inflight :
        /\ q.n = n /\ q.stage = "connect"
        /\ Caught("GET /trackers", <<>>, ConnectTimeout)
        /\ inflight' = inflight \ {q}
        /\ UNCHANGED <<dbVars, bootVars, poolVars>>

\* The database answers the query: client.query() resolves or throws.  The
\* Pool sets no statement_timeout and no query_timeout: nothing else ends
\* the wait.
PoolQueryReturns(n) ==
    \E q \in inflight, out \in {"ok"} \cup QueryErrors :
        /\ q.n = n /\ q.stage = "query"
        /\ inflight' = Moved(q, "finally", out)
        /\ UNCHANGED <<dbVars, served, last, bootVars, poolVars>>

\* A mutation of the helper: client.release() after the query, outside a
\* finally block, so that it is skipped when client.query() throws.
AfterFinally_SuccessOnly(count, out) == IF out = "ok" THEN count - 1 ELSE count

\* finally { client.release() }: the clients checked out once the block
\* has run, whatever the outcome of client.query().
AfterFinally(count, out) == count - 1

\* The finally block runs and query() returns or throws into the handler,
\* which answers.
PoolFinally(n) ==
    \E q \in inflight :
        /\ q.n = n /\ q.stage = "finally"
        /\ checkedOut' = AfterFinally(checkedOut, q.out)
        /\ IF q.out = "ok"
           THEN Respond("GET /trackers", <<>>, 200, SelectTrackers(trackers), 1)
           ELSE Caught("GET /trackers", <<>>, q.out)
        /\ inflight' = inflight \ {q}
        /\ UNCHANGED <<dbVars, bootVars>>

NextPool ==
    \/ GetTrackersBegin
    \/ \E n \in 1..MaxRequests : PoolConnect(n)
    \/ \E n \in 1..MaxRequests : PoolConnectFails(n)
    \/ \E n \in 1..MaxRequests : PoolConnectTimesOut(n)
    \/ \E n \in 1..MaxRequests : PoolQueryReturns(n)
    \/ \E n \in 1..MaxRequests : PoolFinally(n)

\* What the process itself is sure to do: the timer of pool.connect() fires
\* and a settled client.query() runs its continuation.  When, and whether,
\* the database answers is not up to the process.
PoolFairness ==
    \A n \in 1..MaxRequests :
        /\ WF_vars(PoolConnectTimesOut(n))
        /\ WF_vars(PoolFinally(n))

SpecPool == Init /\ [][NextPool]_vars /\ PoolFairness

\* ------------------------------------------------------------- properties
\* A step in which a response is sent.
Answers == served' = served + 1

\* The rows of public.actions of tracker t.
ActionsOf(rows, t) == {a \in rows : a.tracker_id = t}

\* C1: no two persisted actions of one tracker have the same local_id,
\* whatever the interleaving of the POST /actions requests.
C1_LocalIdsUnique ==
    \A a, b \in actions :
        (a.tracker_id = b.tracker_id /\ a.local_id = b.local_id) => a = b

\* C2: with one request at a time, POST /actions persists its row with
\* local_id 1 when the tracker has no actions and otherwise with the
\* successor of the largest local_id of the tracker's actions; the actions
\* of other trackers play no part.
C2_SerialInsertNextLocalId ==
    [][(Answers /\ last'.op = "POST /actions" /\ last'.code = 201) =>
        \E row \in actions' \ actions :
            LET mine == ActionsOf(actions, row.tracker_id)
            IN /\ actions' = actions \cup {row}
               /\ row.local_id.t = "number"
               /\ mine = {} => row.local_id.n = 1
               /\ mine # {} =>
                    /\ \A a \in mine : a.local_id.n < row.local_id.n
                    /\ \E a \in mine : a.local_id.n + 1 = row.local_id.n]_vars

\* C2 witness: an insert into a tracker that has actions was answered.
C2_Witness ==
    /\ last.op = "POST /actions" /\ last.code = 201
    /\ last.body.local_id = Num(2)
    /\ \E a \in actions : IdText(a.tracker_id) = last.body.tracker_id /\ a.local_id = Num(1)

\* C3: every persisted action refers to an existing tracker.
C3_NoOrphanActions ==
    \A a \in actions : \E t \in trackers : t.id = a.tracker_id

\* C3 witness: DELETE /trackers/:id removed a tracker that had actions.
C3_Witness ==
    /\ last.op = "DELETE /trackers" /\ last.code = 200
    /\ last.body.ok /\ last.body.cascaded > 0

\* C4: no invocation of ensureSchema fails with an 'already exists' error.
C4_NoAlreadyExists ==
    \A s \in Servers : schemaErr[s] # "trigger already exists"

\* C5: a GET /health answered after ensureSchema failed on that instance
\* does not report a healthy service.
C5_HealthShowsSchemaFailure ==
    health.afterFailure => health.body.status # "ok"

\* A name that is missing, empty or only whitespace.
Blank(v) ==
    \/ v.t \in {"undefined", "null"}
    \/ v.t = "string" /\ \A i \in 1..Len(v.s) : v.s[i] \in WhiteSpace

\* C6: POST /trackers with a missing, empty or whitespace-only name answers
\* 400, issues no statement and leaves the trackers as they were.
C6_BlankNameRejected ==
    [][(Answers /\ last'.op = "POST /trackers" /\ Blank(last'.args.name)) =>
        /\ last'.code = 400
        /\ last'.stmts = 0
        /\ trackers' = trackers
        /\ trackerSeq' = trackerSeq]_vars

\* C6 witness: a whitespace-only name was rejected while trackers exist.
C6_Witness ==
    /\ last.op = "POST /trackers" /\ last.code = 400
    /\ last.args.name.t = "string" /\ last.args.name.s # <<>>
    /\ trackers # {}

\* C7: PATCH /actions/:id whose body names none of the six fields answers
\* 400, issues no statement and leaves every row as it was.
C7_EmptyPatchRejected ==
    [][(Answers /\ last'.op = "PATCH /actions"
          /\ DOMAIN last'.args.body \cap PatchFields = {}) =>
        /\ last'.code = 400
        /\ last'.stmts = 0
        /\ actions' = actions
        /\ trackers' = trackers]_vars

\* C7 witness: such a PATCH, with a key that is no field, aimed at an
\* existing action.
C7_Witness ==
    /\ last.op = "PATCH /actions" /\ last.code = 400
    /\ DOMAIN last.args.body # {}
    /\ DOMAIN last.args.body \cap PatchFields = {}
    /\ \E a \in actions : IdText(a.id) = last.args.id

\* Row a of a GET /actions response comes before row b: ascending
\* local_id, then ascending id.
Before(a, b) ==
    \/ a.local_id.n < b.local_id.n
    \/ a.local_id.n = b.local_id.n /\ ParseDigits(a.id.s, 0) < ParseDigits(b.id.s, 0)

\* C8: GET /actions?tracker_id=X answers with exactly the actions of
\* tracker X, in ascending local_id order, ties in ascending id order.
C8_ListSortedByLocalId ==
    [][(Answers /\ last'.op = "GET /actions" /\ last'.code = 200) =>
        LET rows == last'.body
            x == ParseDigits(Trim(last'.args.tracker_id.s), 0)
        IN /\ {rows[i] : i \in 1..Len(rows)} = {ActionJson(a) : a \in ActionsOf(actions, x)}
           /\ Len(rows) = Cardinality(ActionsOf(actions, x))
           /\ \A i, j \in 1..Len(rows) : i < j => Before(rows[i], rows[j])]_vars

\* C8 witness: a list of two rows of equal local_id, in id order.
C8_Witness ==
    /\ last.op = "GET /actions" /\ last.code = 200
    /\ Len(last.body) = 2
    /\ last.body[1].local_id = last.body[2].local_id

\* C9: a successful POST /trackers {name} leaves GET /trackers with a
\* tracker of that name under a newly generated id; a successful POST
\* /actions {tracker_id, title} into a tracker without actions leaves
\* GET /actions?tracker_id with exactly one row, of local_id 1, status
\* 'open' and priority 2.
C9_RoundTrip ==
    [][/\ (Answers /\ last'.op = "POST /trackers" /\ last'.code = 201) =>
            LET list == SelectTrackers(trackers')
            IN /\ \A t \in trackers : IdText(t.id) # last'.body.id
               /\ \E i \in 1..Len(list) :
                    /\ list[i].id = last'.body.id
                    /\ list[i].name = Str(Trim(last'.args.name.s))
       /\ (Answers /\ last'.op = "POST /actions" /\ last'.code = 201
             /\ DOMAIN last'.args = {"tracker_id", "title"}
             /\ ActionsOf(actions, JsNumber(last'.args.tracker_id).n) = {}) =>
            LET list == SelectActions(actions', JsNumber(last'.args.tracker_id).n)
            IN /\ Len(list) = 1
               /\ list[1] = last'.body
               /\ list[1].local_id = Num(1)
               /\ list[1].status = Str(StatusOpen)
               /\ list[1].priority = Num(2)
               /\ list[1].title = Str(Trim(last'.args.title.s))]_vars

\* C9 witness: tracker "T1" holds the one action just posted with defaults.
C9_Witness ==
    /\ last.op = "POST /actions" /\ last.code = 201
    /\ DOMAIN last.args = {"tracker_id", "title"}
    /\ last.body.local_id = Num(1) /\ last.body.priority = Num(2)
    /\ \E t \in trackers :
        /\ t.name = Str(<<"T", "1">>)
        /\ IdText(t.id) = last.args.tracker_id
        /\ IdText(t.id) = last.body.tracker_id
        /\ SelectActions(actions, t.id) = <<last.body>>

\* C10: an INSERT that names a local_id persists the row with that
\* local_id; the trigger assigns one only to a row whose local_id is NULL.
C10_ExplicitLocalIdKept ==
    [][(Answers /\ last'.op = "INSERT actions" /\ "error" \notin DOMAIN last'.body) =>
        /\ actions' = actions \cup {last'.body}
        /\ last'.body \notin actions
        /\ last'.args.local_id.t = "number" => last'.body.local_id = last'.args.local_id
        /\ last'.args.local_id.t = "null" => last'.body.local_id.t = "number"]_vars

\* C10 witness: a row inserted with local_id 5 into a tracker whose next
\* local_id would have been another.
C10_Witness ==
    /\ last.op = "INSERT actions"
    /\ last.args.local_id = Num(5)
    /\ last.body \in actions
    /\ last.body.local_id = Num(5)
    /\ MaxLocalId(ActionsOf(actions \ {last.body}, last.body.tracker_id)) = 1

\* A body of POST /actions whose status is not one of the three values.
InvalidStatus(body) ==
    /\ "status" \in DOMAIN body
    /\ ~(body.status.t = "string"
         /\ body.status.s \in {StatusOpen, StatusInProgress, StatusCompleted})

\* C13: POST /actions whose status is not open, in_progress or completed
\* answers 400, issues no statement and creates no row.
C13_InvalidStatusRejected ==
    [][(Answers /\ last'.op = "POST /actions" /\ InvalidStatus(last'.args)) =>
        /\ last'.code = 400
        /\ last'.stmts = 0
        /\ actions' = actions]_vars

\* C14: every persisted tracker has a name that is not empty after trimming.
C14_TrackerNamesNonEmpty ==
    \A t \in trackers : t.name.t = "string" /\ Trim(t.name.s) # <<>>

\* A response to a request whose storage call could not reach the database.
StorageFailure(r) == r.logged # <<>> /\ r.logged[1] \in StorageErrors

\* C12: the response to a storage failure does not depend on the text of
\* the storage error: the same request failing twice in a row, whatever the
\* two error texts, is answered with the same status and body.
C12_FailureBodyGeneric ==
    [][(/\ Answers
        /\ StorageFailure(last) /\ StorageFailure(last')
        /\ last'.op = last.op /\ last'.args = last.args) =>
        (last'.code = last.code /\ last'.body = last.body)]_vars

\* Request n is waiting for its response.
Pending(n) == \E q \in inflight : q.n = n

\* Request n is waiting for pool.connect().
Connecting(n) == \E q \in inflight : q.n = n /\ q.stage = "connect"

\* The wait for a client is bounded: connectionTimeoutMillis ends it.
PoolConnectIsBounded == \A n \in 1..MaxRequests : Connecting(n) ~> ~Connecting(n)

\* C11: every request is answered in the end, also when the database never
\* answers.
C11_EveryRequestAnswered == \A n \in 1..MaxRequests : Pending(n) ~> ~Pending(n)

\* C15: the clients checked out are those the calls under way hold, one
\* each: never more than the pool's maximum, and none once every request
\* has been answered.
C15_ClientsReleased ==
    /\ checkedOut = Cardinality(Holders)
    /\ checkedOut <= PoolMax
    /\ inflight = {} => checkedOut = 0

\* C15 witness: client.query() threw, its client went back to the pool and
\* every request has been answered.
C15_Witness ==
    /\ last.op = "GET /trackers" /\ last.code = 500
    /\ last.logged[1] \in QueryErrors
    /\ served > 1
    /\ inflight = {}
    /\ checkedOut = 0

====
